---- MODULE Spec2Model ----
(***************************************************************************)
(* Model of the virtio-mmio block driver of src/src/block.rs:              *)
(* VirtioMMIOBlockDevice::init (the MMIO handshake) and SectorRead::read   *)
(* (one three-descriptor chain per call, published on the split queue and  *)
(* polled to completion), together with the device on the other side of    *)
(* the registers and of the queue memory.                                  *)
(*                                                                         *)
(* Representation.  A u32 or u64 value is the set of its set bit           *)
(* positions, so that `|` is \cup, `&` is \cap, `as u32` keeps the bits    *)
(* 0..31 and `>> 32` moves the bits 32..63 down: no 64-bit value is cut to *)
(* the range of TLC's integers.  Small numbers (indices, u16               *)
(* counters, the status byte) are integers with explicit wrap-around.      *)
(* A buffer address is the name of the object it points to.  The 512 data  *)
(* bytes of a sector are one token; a data buffer is the number of bytes   *)
(* the device wrote into it and the token they came from.                  *)
(***************************************************************************)
EXTENDS Integers, Sequences, FiniteSets, TLC

----------------------------------------------------------------------------
(* Bounds of the model *)

\* number of read() calls that pass the length check in one behaviour
MaxReads == 17
\* number of read() calls completed before a behaviour that starts late, so
\* that the 16-bit ring index wraps within the behaviour
ReadsBefore == 65530

----------------------------------------------------------------------------
(* Program constants *)

QUEUE_SIZE == 16
SECTOR_SIZE == 512

VIRTIO_MAGIC == 1953655158          \* 0x74726976
VIRTIO_VERSION == 2
VIRTIO_SUBSYSTEM_BLOCK == 2
VIRTIO_F_VERSION_1 == {32}          \* 1 << 32

VIRTIO_STATUS_RESET == 0
VIRTIO_STATUS_ACKNOWLEDGE == 1
VIRTIO_STATUS_DRIVER == 2
VIRTIO_STATUS_FEATURES_OK == 8
VIRTIO_STATUS_DRIVER_OK == 4
VIRTIO_STATUS_FAILED == 128

VIRTQ_DESC_F_NEXT == 1
VIRTQ_DESC_F_WRITE == 2

VIRTIO_BLK_S_OK == 0
VIRTIO_BLK_S_IOERR == 1
VIRTIO_BLK_S_UNSUPP == 2

\* size_of::<BlockRequestHeader>() : u32 + u32 + u64, repr(C)
HEADER_SIZE == 16
\* size_of::<BlockRequestFooter>() : u8
FOOTER_SIZE == 1

\* register offsets used by the driver
REG_MAGIC == 0                      \* 0x000
REG_VERSION == 4                    \* 0x004
REG_DEVICE_ID == 8                  \* 0x008
REG_DEVICE_FEATURES == 16           \* 0x010
REG_DEVICE_FEATURES_SEL == 20       \* 0x014
REG_DRIVER_FEATURES == 32           \* 0x020
REG_DRIVER_FEATURES_SEL == 36       \* 0x024
REG_QUEUE_SEL == 48                 \* 0x030
REG_QUEUE_NUM_MAX == 52             \* 0x034
REG_QUEUE_NUM == 56                 \* 0x038
REG_QUEUE_READY == 68               \* 0x044
REG_QUEUE_NOTIFY == 80              \* 0x050
REG_STATUS == 112                   \* 0x070
REG_DESC_LOW == 128                 \* 0x080
REG_DESC_HIGH == 132                \* 0x084
REG_AVAIL_LOW == 144                \* 0x090
REG_AVAIL_HIGH == 148               \* 0x094
REG_USED_LOW == 160                 \* 0x0a0
REG_USED_HIGH == 164                \* 0x0a4

QueueAddrRegs == {REG_DESC_LOW, REG_DESC_HIGH, REG_AVAIL_LOW, REG_AVAIL_HIGH,
                  REG_USED_LOW, REG_USED_HIGH}

WritableRegs == {REG_DEVICE_FEATURES_SEL, REG_DRIVER_FEATURES,
                 REG_DRIVER_FEATURES_SEL, REG_QUEUE_SEL, REG_QUEUE_NUM,
                 REG_QUEUE_READY, REG_QUEUE_NOTIFY, REG_STATUS} \cup QueueAddrRegs

----------------------------------------------------------------------------
(* Fixed-width values as sets of bit positions *)

\* the u32 with the value n, 0 <= n < 2^31
Bits(n) == {i \in 0..30 : (n \div (2^i)) % 2 = 1}

\* x as u32 (truncation of a u64)
Lo32(x) == x \cap (0..31)
\* (x >> 32) as u32
Hi32(x) == {b - 32 : b \in x \cap (32..63)}
\* (x as u64) << 32
Shl32(x) == {b + 32 : b \in x \cap (0..31)}

\* a < b for two unsigned values
ULess(a, b) == \E i \in b \ a : \A j \in (a \cup b) : j > i => (j \in a <=> j \in b)

\* x & mask == mask
HasAll(x, mask) == (x \cap mask) = mask

\* u16 arithmetic that does not wrap
Wrap16_no_wrap(n) == n

Wrap16(n) == n % 65536

----------------------------------------------------------------------------
(* Inputs *)

\* device feature bitmaps: with and without VERSION_1, bits in both halves
FeatureBitmaps == {{}, {32}, {0, 31, 32, 63}, {0, 31, 33, 63}, {5, 32, 40}, {31}}

\* values a device may show in the magic, version and device-type registers
MagicValues == {Bits(VIRTIO_MAGIC), Bits(0), Bits(VIRTIO_MAGIC) \cup {31}}
VersionValues == {Bits(VIRTIO_VERSION), Bits(1)}
DeviceIdValues == {Bits(VIRTIO_SUBSYSTEM_BLOCK), Bits(1)}

\* maximum queue sizes a device may report in 0x034
MaxQueueValues == {Bits(0), Bits(QUEUE_SIZE - 1), Bits(QUEUE_SIZE), Bits(1024)}

\* how the device serves the queue
DeviceKinds == {"conforming", "faulty", "dead"}

\* sector numbers the caller asks for: the sectors of the store, and one
\* beyond its end that needs more than 32 bits
StoredSectors == {Bits(0), Bits(1)}
Sectors == StoredSectors \cup {{0, 33, 63}}

\* buffer lengths the caller passes
DataLens == {SECTOR_SIZE - 1, SECTOR_SIZE, SECTOR_SIZE + 1}

\* status bytes a faulty device may leave in the footer
StatusBytes == {0, 1, 2, 3, 128, 255}
\* byte counts a faulty device may write into the data buffer
FaultyByteCounts == {0, SECTOR_SIZE - 1, SECTOR_SIZE}

\* where the queue parts live (64-byte aligned container, bits in both halves)
DescAddr == {6, 20, 33}
AvailAddr == {6, 8, 9, 20, 33}
UsedAddr == {7, 8, 9, 20, 33}

\* the backing store: the 512 bytes of sector s, as one token
SectorContent(s) == <<"bytes of sector", s>>
NoData == <<"caller bytes">>

----------------------------------------------------------------------------
VARIABLES
    cfg,            \* what the device is: register values and behaviour;
                    \* and how many reads were completed before the start
    bus,            \* device side of the MMIO region: registers and write log
                    \* (of the reads before a late start, the notify writes
                    \* are not in the log)
    pc,             \* position of the driver
    initResult,     \* what init() returned
    device_features,\* init(): local
    descriptors,    \* self.descriptors
    avail,          \* self.avail
    used,           \* self.used
    next_head,      \* self.next_head
    next_desc,      \* read(): local
    stack,          \* read(): header, footer and the caller's data buffer
    readResult,     \* what the last read() returned
    dpc,            \* position of the device in serving a chain
    dreq,           \* the chain the device fetched
    nReads,         \* number of read() calls that passed the length check
    argSector,      \* the sector argument of the current read()
    head0,          \* next_head at the entry of the current read()
    touched,        \* descriptor slots written by the current read()
    prevTouched,    \* descriptor slots written by the read() before
    lastOk,         \* per sector, the buffer of the last read() that returned Ok
                    \* from a conforming device, and whether it was a repeated one
    waited,         \* the poll loop of the current read() found used.idx behind
    fenced          \* a fence was issued since used.idx was last read

vars == <<cfg, bus, pc, initResult, device_features, descriptors, avail, used,
          next_head, next_desc, stack, readResult, dpc, dreq, nReads, argSector, head0,
          touched, prevTouched, lastOk, waited, fenced>>

queueVars == <<descriptors, avail, used, next_head, next_desc, stack,
               readResult, dpc, dreq, nReads, argSector, head0, touched, prevTouched,
               lastOk, waited>>

----------------------------------------------------------------------------
(* The MMIO region: mem::MemoryRegion::io_read_u32 / io_write_u32 against   *)
(* the registers of a virtio-mmio device                                    *)

\* what the device keeps of a value written to the status register: 0 is a
\* reset; a device that does not accept the features refuses FEATURES_OK
StatusStored(c, val) ==
    IF c.accept THEN val ELSE val \ Bits(VIRTIO_STATUS_FEATURES_OK)

\* the half of the driver feature set that a write to 0x020 lands in
DriverFeaturesStored(b, val) ==
    IF b.reg[REG_DRIVER_FEATURES_SEL] = Bits(0) THEN [b.drvFeat EXCEPT ![0] = val]
    ELSE IF b.reg[REG_DRIVER_FEATURES_SEL] = Bits(1) THEN [b.drvFeat EXCEPT ![1] = val]
    ELSE b.drvFeat

io_write_u32(c, b, off, val) ==
    [b EXCEPT !.reg[off] = IF off = REG_STATUS THEN StatusStored(c, val) ELSE val,
              !.drvFeat = IF off = REG_DRIVER_FEATURES
                          THEN DriverFeaturesStored(b, val) ELSE @,
              !.log = Append(@, <<off, val>>)]

io_read_u32(c, b, off) ==
    CASE off = REG_MAGIC -> c.magic
      [] off = REG_VERSION -> c.version
      [] off = REG_DEVICE_ID -> c.device_id
      [] off = REG_DEVICE_FEATURES ->
            IF b.reg[REG_DEVICE_FEATURES_SEL] = Bits(0) THEN Lo32(c.features)
            ELSE IF b.reg[REG_DEVICE_FEATURES_SEL] = Bits(1) THEN Hi32(c.features)
            ELSE {}
      [] off = REG_QUEUE_NUM_MAX ->
            IF b.reg[REG_QUEUE_SEL] = Bits(0) THEN c.max_queue ELSE {}
      [] off = REG_STATUS -> b.reg[REG_STATUS]
      [] OTHER -> {}

get_status(c, b) == io_read_u32(c, b, REG_STATUS)

set_status(c, b, value) == io_write_u32(c, b, REG_STATUS, value)

\* a status write that forgets the bits already set
add_status_overwrite(c, b, value) == set_status(c, b, value)

add_status(c, b, value) == set_status(c, b, get_status(c, b) \cup value)

----------------------------------------------------------------------------
(* Construction *)

\* the devices: every combination of register values with a conforming queue,
\* and the other queue behaviours behind the registers of the plain device
PlainFeatures == VIRTIO_F_VERSION_1
PlainMaxQueue == Bits(QUEUE_SIZE)

Configs ==
    {c \in [magic : MagicValues, version : VersionValues,
            device_id : DeviceIdValues, features : FeatureBitmaps,
            max_queue : MaxQueueValues, accept : BOOLEAN, kind : DeviceKinds,
            before : {0}] :
        c.kind # "conforming" =>
            /\ c.magic = Bits(VIRTIO_MAGIC) /\ c.version = Bits(VIRTIO_VERSION)
            /\ c.device_id = Bits(VIRTIO_SUBSYSTEM_BLOCK)
            /\ c.features = PlainFeatures /\ c.max_queue = PlainMaxQueue
            /\ c.accept}

\* #[derive(Default)] Desc
DefaultDesc == [addr |-> "null", length |-> 0, flags |-> {}, next |-> 0]

\* #[derive(Default)] UsedElem; the driver reads neither field, and the
\* byte count the device reports in len is left out
DefaultUsedElem == [id |-> 0]

NoRequest == [head |-> 0, chain |-> <<>>, sector |-> {}, bytes |-> 0]

NoStack == [header |-> [request |-> 0, reserved |-> 0, sector |-> {}],
            data |-> [len |-> 0, bytes |-> 0, fill |-> NoData],
            footer |-> [status |-> 0]]

\* the plain conforming device after ReadsBefore reads of sector 0
LateConfigs ==
    {[magic |-> Bits(VIRTIO_MAGIC), version |-> Bits(VIRTIO_VERSION),
      device_id |-> Bits(VIRTIO_SUBSYSTEM_BLOCK), features |-> PlainFeatures,
      max_queue |-> PlainMaxQueue, accept |-> TRUE, kind |-> "conforming",
      before |-> ReadsBefore]}

EmptyBus == [reg |-> [o \in WritableRegs |-> {}],
             drvFeat |-> [h \in 0..1 |-> {}],
             log |-> <<>>]

\* construction, before init()
Init ==
    /\ cfg \in Configs
    /\ bus = EmptyBus
    /\ pc = "probe"
    /\ initResult = "none"
    /\ device_features = {}
    /\ descriptors = [i \in 0..(QUEUE_SIZE - 1) |-> DefaultDesc]
    /\ avail = [flags |-> 0, idx |-> 0, ring |-> [i \in 0..(QUEUE_SIZE - 1) |-> 0]]
    /\ used = [flags |-> 0, idx |-> 0,
               ring |-> [i \in 0..(QUEUE_SIZE - 1) |-> DefaultUsedElem]]
    /\ next_head = 0
    /\ next_desc = 0
    /\ stack = NoStack
    /\ readResult = "none"
    /\ dpc = "d_idle"
    /\ dreq = NoRequest
    /\ nReads = 0
    /\ argSector = {}
    /\ head0 = 0
    /\ touched = {}
    /\ prevTouched = {}
    /\ lastOk = [s \in Sectors |-> <<>>]
    /\ waited = FALSE
    /\ fenced = FALSE

----------------------------------------------------------------------------
(* VirtioMMIOBlockDevice::init *)

\* return Err(e) / Ok(()) from init()
InitReturn(b, r) ==
    /\ bus' = b
    /\ initResult' = r
    /\ pc' = IF r = "Ok" THEN "idle" ELSE "init_failed"

\* the probe with the version checked before the magic value
ProbeError_version_first(c, b) ==
    IF io_read_u32(c, b, REG_VERSION) # Bits(VIRTIO_VERSION) THEN "VirtioVersionInvalid"
    ELSE IF io_read_u32(c, b, REG_MAGIC) # Bits(VIRTIO_MAGIC) THEN "VirtioMagicInvalid"
    ELSE IF io_read_u32(c, b, REG_DEVICE_ID) # Bits(VIRTIO_SUBSYSTEM_BLOCK)
         THEN "VirtioUnsupportedDevice"
    ELSE "none"

\* the first of the three probe checks that fails decides the error
ProbeError(c, b) ==
    IF io_read_u32(c, b, REG_MAGIC) # Bits(VIRTIO_MAGIC) THEN "VirtioMagicInvalid"
    ELSE IF io_read_u32(c, b, REG_VERSION) # Bits(VIRTIO_VERSION) THEN "VirtioVersionInvalid"
    ELSE IF io_read_u32(c, b, REG_DEVICE_ID) # Bits(VIRTIO_SUBSYSTEM_BLOCK)
         THEN "VirtioUnsupportedDevice"
    ELSE "none"

Probe ==
    /\ pc = "probe"
    /\ IF ProbeError(cfg, bus) # "none"
       THEN InitReturn(bus, ProbeError(cfg, bus))
       ELSE /\ pc' = "reset"
            /\ UNCHANGED <<bus, initResult>>
    /\ UNCHANGED <<cfg, device_features, queueVars, fenced>>

Reset ==
    /\ pc = "reset"
    /\ bus' = set_status(cfg, bus, Bits(VIRTIO_STATUS_RESET))
    /\ pc' = "acknowledge"
    /\ UNCHANGED <<cfg, initResult, device_features, queueVars, fenced>>

Acknowledge ==
    /\ pc = "acknowledge"
    /\ bus' = add_status(cfg, bus, Bits(VIRTIO_STATUS_ACKNOWLEDGE))
    /\ pc' = "driver"
    /\ UNCHANGED <<cfg, initResult, device_features, queueVars, fenced>>

Driver ==
    /\ pc = "driver"
    /\ bus' = add_status(cfg, bus, Bits(VIRTIO_STATUS_DRIVER))
    /\ pc' = "request_features"
    /\ UNCHANGED <<cfg, initResult, device_features, queueVars, fenced>>

\* the 64-bit device feature bitmap, read as two halves
ReadDeviceFeatures(c, b) ==
    LET b1 == io_write_u32(c, b, REG_DEVICE_FEATURES_SEL, Bits(0))
        lo == io_read_u32(c, b1, REG_DEVICE_FEATURES)
        b2 == io_write_u32(c, b1, REG_DEVICE_FEATURES_SEL, Bits(1))
        hi == io_read_u32(c, b2, REG_DEVICE_FEATURES)
    IN  [bus |-> b2, features |-> lo \cup Shl32(hi)]

\* the driver features reported before the VERSION_1 check
RequestFeatures_report_first ==
    /\ pc = "request_features"
    /\ LET r == ReadDeviceFeatures(cfg, bus)
           b == io_write_u32(cfg,
                  io_write_u32(cfg, r.bus, REG_DRIVER_FEATURES_SEL, Bits(0)),
                  REG_DRIVER_FEATURES, Lo32(r.features))
       IN
        /\ device_features' = r.features
        /\ IF ~HasAll(r.features, VIRTIO_F_VERSION_1)
           THEN InitReturn(add_status(cfg, b, Bits(VIRTIO_STATUS_FAILED)),
                           "VirtioLegacyOnly")
           ELSE /\ bus' = r.bus
                /\ pc' = "report_features"
                /\ UNCHANGED initResult
    /\ UNCHANGED <<cfg, queueVars, fenced>>

RequestFeatures ==
    /\ pc = "request_features"
    /\ LET r == ReadDeviceFeatures(cfg, bus) IN
        /\ device_features' = r.features
        /\ IF ~HasAll(r.features, VIRTIO_F_VERSION_1)
           THEN InitReturn(add_status(cfg, r.bus, Bits(VIRTIO_STATUS_FAILED)),
                           "VirtioLegacyOnly")
           ELSE /\ bus' = r.bus
                /\ pc' = "report_features"
                /\ UNCHANGED initResult
    /\ UNCHANGED <<cfg, queueVars, fenced>>

\* both halves written under driver-feature-select 0
WriteDriverFeatures_no_select(c, b, driver_features) ==
    LET b1 == io_write_u32(c, b, REG_DRIVER_FEATURES_SEL, Bits(0))
        b2 == io_write_u32(c, b1, REG_DRIVER_FEATURES, Lo32(driver_features))
    IN  io_write_u32(c, b2, REG_DRIVER_FEATURES, Hi32(driver_features))

\* the driver feature set, written as two halves
WriteDriverFeatures(c, b, driver_features) ==
    LET b1 == io_write_u32(c, b, REG_DRIVER_FEATURES_SEL, Bits(0))
        b2 == io_write_u32(c, b1, REG_DRIVER_FEATURES, Lo32(driver_features))
        b3 == io_write_u32(c, b2, REG_DRIVER_FEATURES_SEL, Bits(1))
    IN  io_write_u32(c, b3, REG_DRIVER_FEATURES, Hi32(driver_features))

ReportFeatures ==
    /\ pc = "report_features"
    /\ bus' = WriteDriverFeatures(cfg, bus, device_features)
    /\ pc' = "features_ok"
    /\ UNCHANGED <<cfg, initResult, device_features, queueVars, fenced>>

\* the negotiation failure returned without telling the device
FeaturesOk_silent ==
    /\ pc = "features_ok"
    /\ LET b1 == add_status(cfg, bus, Bits(VIRTIO_STATUS_FEATURES_OK)) IN
        IF ~HasAll(get_status(cfg, b1), Bits(VIRTIO_STATUS_FEATURES_OK))
        THEN InitReturn(b1, "VirtioFeatureNegotiationFailed")
        ELSE /\ bus' = b1
             /\ pc' = "queue_select"
             /\ UNCHANGED initResult
    /\ UNCHANGED <<cfg, device_features, queueVars, fenced>>

FeaturesOk ==
    /\ pc = "features_ok"
    /\ LET b1 == add_status(cfg, bus, Bits(VIRTIO_STATUS_FEATURES_OK)) IN
        IF ~HasAll(get_status(cfg, b1), Bits(VIRTIO_STATUS_FEATURES_OK))
        THEN InitReturn(add_status(cfg, b1, Bits(VIRTIO_STATUS_FAILED)),
                        "VirtioFeatureNegotiationFailed")
        ELSE /\ bus' = b1
             /\ pc' = "queue_select"
             /\ UNCHANGED initResult
    /\ UNCHANGED <<cfg, device_features, queueVars, fenced>>

\* the size check off by one
QueueTooSmall_off_by_one(max_queue) == ULess(max_queue, Bits(QUEUE_SIZE - 1))

\* max_queue < QUEUE_SIZE as u32
QueueTooSmall(max_queue) == ULess(max_queue, Bits(QUEUE_SIZE))

\* the queue marked ready before its size is checked
QueueSelect_ready_first ==
    /\ pc = "queue_select"
    /\ LET b1 == io_write_u32(cfg,
                   io_write_u32(cfg, bus, REG_QUEUE_SEL, Bits(0)),
                   REG_QUEUE_READY, Bits(1))
           max_queue == io_read_u32(cfg, b1, REG_QUEUE_NUM_MAX)
       IN  IF QueueTooSmall(max_queue)
           THEN InitReturn(add_status(cfg, b1, Bits(VIRTIO_STATUS_FAILED)),
                           "VirtioQueueTooSmall")
           ELSE /\ bus' = io_write_u32(cfg, b1, REG_QUEUE_NUM, Bits(QUEUE_SIZE))
                /\ pc' = "queue_program"
                /\ UNCHANGED initResult
    /\ UNCHANGED <<cfg, device_features, queueVars, fenced>>

QueueSelect ==
    /\ pc = "queue_select"
    /\ LET b1 == io_write_u32(cfg, bus, REG_QUEUE_SEL, Bits(0))
           max_queue == io_read_u32(cfg, b1, REG_QUEUE_NUM_MAX)
       IN  IF QueueTooSmall(max_queue)
           THEN InitReturn(add_status(cfg, b1, Bits(VIRTIO_STATUS_FAILED)),
                           "VirtioQueueTooSmall")
           ELSE /\ bus' = io_write_u32(cfg, b1, REG_QUEUE_NUM, Bits(QUEUE_SIZE))
                /\ pc' = "queue_program"
                /\ UNCHANGED initResult
    /\ UNCHANGED <<cfg, device_features, queueVars, fenced>>

\* one queue part with the high half of its address left out
WriteAddr_low_only(c, b, lowReg, highReg, addr) ==
    io_write_u32(c, b, lowReg, Lo32(addr))

\* one queue part: address-low then address-high
WriteAddr(c, b, lowReg, highReg, addr) ==
    io_write_u32(c, io_write_u32(c, b, lowReg, Lo32(addr)), highReg, Hi32(addr))

QueueProgram ==
    /\ pc = "queue_program"
    /\ bus' = WriteAddr(cfg,
                WriteAddr(cfg,
                  WriteAddr(cfg, bus, REG_DESC_LOW, REG_DESC_HIGH, DescAddr),
                  REG_AVAIL_LOW, REG_AVAIL_HIGH, AvailAddr),
                REG_USED_LOW, REG_USED_HIGH, UsedAddr)
    /\ pc' = "queue_ready"
    /\ UNCHANGED <<cfg, initResult, device_features, queueVars, fenced>>

QueueReady ==
    /\ pc = "queue_ready"
    /\ bus' = io_write_u32(cfg, bus, REG_QUEUE_READY, Bits(1))
    /\ pc' = "driver_ok"
    /\ UNCHANGED <<cfg, initResult, device_features, queueVars, fenced>>

DriverOk ==
    /\ pc = "driver_ok"
    /\ InitReturn(add_status(cfg, bus, Bits(VIRTIO_STATUS_DRIVER_OK)), "Ok")
    /\ UNCHANGED <<cfg, device_features, queueVars, fenced>>

InitStep ==
    \/ Probe \/ Reset \/ Acknowledge \/ Driver \/ RequestFeatures
    \/ ReportFeatures \/ FeaturesOk \/ QueueSelect \/ QueueProgram
    \/ QueueReady \/ DriverOk

----------------------------------------------------------------------------
(* SectorRead::read *)

\* (i + 1) % QUEUE_SIZE
NextSlot(i) == (i + 1) % QUEUE_SIZE

\* the request record and the footer of one call, and the caller's buffer
\* the request record with the sector number cut to 32 bits
NewStack_sector_u32(sector, len) ==
    [header |-> [request |-> 0, reserved |-> 0, sector |-> Lo32(sector)],
     data |-> [len |-> len, bytes |-> 0, fill |-> NoData],
     footer |-> [status |-> 0]]

NewStack(sector, len) ==
    [header |-> [request |-> 0, reserved |-> 0, sector |-> sector],
     data |-> [len |-> len, bytes |-> 0, fill |-> NoData],
     footer |-> [status |-> 0]]

\* a length check that lets longer buffers through
LengthOk_at_least(len) == len >= SECTOR_SIZE

\* assert_eq!(512, data.len())
LengthOk(len) == len = SECTOR_SIZE

ReadCall(sector, len) ==
    /\ pc = "idle"
    /\ nReads - cfg.before < MaxReads
    /\ IF ~LengthOk(len)
       THEN /\ pc' = "panicked"
            /\ UNCHANGED <<stack, readResult, nReads, argSector, head0, touched,
                           prevTouched, waited>>
       ELSE /\ pc' = "desc_header"
            /\ stack' = NewStack(sector, len)
            /\ readResult' = "none"
            /\ nReads' = nReads + 1
            /\ argSector' = sector
            /\ head0' = next_head
            /\ prevTouched' = touched
            /\ touched' = {}
            /\ waited' = FALSE
    /\ UNCHANGED <<cfg, bus, initResult, device_features, descriptors, avail,
                   used, next_head, next_desc, dpc, dreq, lastOk, fenced>>

HeaderDesc(next) ==
    [addr |-> "header", length |-> HEADER_SIZE,
     flags |-> Bits(VIRTQ_DESC_F_NEXT), next |-> next]

DataDesc(next) ==
    [addr |-> "data", length |-> SECTOR_SIZE,
     flags |-> Bits(VIRTQ_DESC_F_NEXT) \cup Bits(VIRTQ_DESC_F_WRITE), next |-> next]

\* a footer descriptor that is still chained
FooterDesc_chained ==
    [addr |-> "footer", length |-> FOOTER_SIZE,
     flags |-> Bits(VIRTQ_DESC_F_NEXT) \cup Bits(VIRTQ_DESC_F_WRITE), next |-> 0]

FooterDesc ==
    [addr |-> "footer", length |-> FOOTER_SIZE,
     flags |-> Bits(VIRTQ_DESC_F_WRITE), next |-> 0]

FillHeaderDesc ==
    /\ pc = "desc_header"
    /\ next_desc' = NextSlot(next_head)
    /\ descriptors' = [descriptors EXCEPT ![next_head] = HeaderDesc(next_desc')]
    /\ touched' = touched \cup {next_head}
    /\ pc' = "desc_data"
    /\ UNCHANGED <<cfg, bus, initResult, device_features, avail, used, next_head,
                   stack, readResult, dpc, dreq, nReads, argSector, head0, prevTouched,
                   lastOk, waited, fenced>>

FillDataDesc ==
    /\ pc = "desc_data"
    /\ next_desc' = NextSlot(next_desc)
    /\ descriptors' = [descriptors EXCEPT ![next_desc] = DataDesc(next_desc')]
    /\ touched' = touched \cup {next_desc}
    /\ pc' = "desc_footer"
    /\ UNCHANGED <<cfg, bus, initResult, device_features, avail, used, next_head,
                   stack, readResult, dpc, dreq, nReads, argSector, head0, prevTouched,
                   lastOk, waited, fenced>>

\* the chain built and the index advanced with the ring write left out
FillFooterDesc_no_ring_write ==
    /\ pc = "desc_footer"
    /\ descriptors' = [descriptors EXCEPT ![next_desc] = FooterDesc]
    /\ touched' = touched \cup {next_desc}
    /\ pc' = "publish_idx"
    /\ UNCHANGED <<cfg, bus, initResult, device_features, avail, used, next_head,
                   next_desc, stack, readResult, dpc, dreq, nReads, argSector,
                   head0, prevTouched, lastOk, waited, fenced>>

FillFooterDesc ==
    /\ pc = "desc_footer"
    /\ descriptors' = [descriptors EXCEPT ![next_desc] = FooterDesc]
    /\ touched' = touched \cup {next_desc}
    /\ pc' = "publish_ring"
    /\ UNCHANGED <<cfg, bus, initResult, device_features, avail, used, next_head,
                   next_desc, stack, readResult, dpc, dreq, nReads, argSector, head0,
                   prevTouched, lastOk, waited, fenced>>

\* (self.avail.idx % QUEUE_SIZE as u16) as usize
RingSlot(idx) == idx % QUEUE_SIZE

PublishRing ==
    /\ pc = "publish_ring"
    /\ avail' = [avail EXCEPT !.ring[RingSlot(avail.idx)] = next_head]
    /\ pc' = "publish_fence"
    /\ UNCHANGED <<cfg, bus, initResult, device_features, descriptors, used,
                   next_head, next_desc, stack, readResult, dpc, dreq, nReads, argSector,
                   head0, touched, prevTouched, lastOk, waited, fenced>>

PublishFence ==
    /\ pc = "publish_fence"
    /\ fenced' = TRUE
    /\ pc' = "publish_idx"
    /\ UNCHANGED <<cfg, bus, initResult, device_features, queueVars>>

PublishIdx ==
    /\ pc = "publish_idx"
    /\ avail' = [avail EXCEPT !.idx = Wrap16(avail.idx + 1)]
    /\ pc' = "advance_head"
    /\ UNCHANGED <<cfg, bus, initResult, device_features, descriptors, used,
                   next_head, next_desc, stack, readResult, dpc, dreq, nReads, argSector,
                   head0, touched, prevTouched, lastOk, waited, fenced>>

\* the cursor left on the footer slot of the chain
AdvanceHead_on_footer ==
    /\ pc = "advance_head"
    /\ next_head' = next_desc
    /\ pc' = "notify"
    /\ UNCHANGED <<cfg, bus, initResult, device_features, descriptors, avail,
                   used, next_desc, stack, readResult, dpc, dreq, nReads,
                   argSector, head0, touched, prevTouched, lastOk, waited, fenced>>

AdvanceHead ==
    /\ pc = "advance_head"
    /\ next_head' = NextSlot(next_desc)
    /\ pc' = "notify"
    /\ UNCHANGED <<cfg, bus, initResult, device_features, descriptors, avail,
                   used, next_desc, stack, readResult, dpc, dreq, nReads, argSector, head0,
                   touched, prevTouched, lastOk, waited, fenced>>

Notify ==
    /\ pc = "notify"
    /\ bus' = io_write_u32(cfg, bus, REG_QUEUE_NOTIFY, Bits(0))
    /\ pc' = "poll"
    /\ UNCHANGED <<cfg, initResult, device_features, queueVars, fenced>>

\* a completion test that is one entry early
Pending_one_early(u, a) == Wrap16(u.idx + 1) # a.idx

\* while self.used.idx != self.avail.idx
Pending(u, a) == u.idx # a.idx

\* a read that does not wait for the device
Poll_no_wait ==
    /\ pc = "poll"
    /\ fenced' = FALSE
    /\ pc' = "status"
    /\ UNCHANGED <<cfg, bus, initResult, device_features, queueVars>>

\* a poll loop that tests again without a fence
Poll_no_fence ==
    /\ pc = "poll"
    /\ fenced' = FALSE
    /\ IF Pending(used, avail)
       THEN /\ pc' = "poll"
            /\ waited' = TRUE
       ELSE /\ pc' = "status"
            /\ UNCHANGED waited
    /\ UNCHANGED <<cfg, bus, initResult, device_features, descriptors, avail,
                   used, next_head, next_desc, stack, readResult, dpc, dreq,
                   nReads, argSector, head0, touched, prevTouched, lastOk>>

Poll ==
    /\ pc = "poll"
    /\ fenced' = FALSE
    /\ IF Pending(used, avail)
       THEN /\ pc' = "poll_fence"
            /\ waited' = TRUE
       ELSE /\ pc' = "status"
            /\ UNCHANGED waited
    /\ UNCHANGED <<cfg, bus, initResult, device_features, descriptors, avail,
                   used, next_head, next_desc, stack, readResult, dpc, dreq,
                   nReads, argSector, head0, touched, prevTouched, lastOk>>

PollFence ==
    /\ pc = "poll_fence"
    /\ fenced' = TRUE
    /\ pc' = "poll"
    /\ UNCHANGED <<cfg, bus, initResult, device_features, queueVars>>

\* unknown status bytes taken for success
StatusResult_unknown_ok(status) ==
    CASE status = VIRTIO_BLK_S_IOERR -> "BlockIOError"
      [] status = VIRTIO_BLK_S_UNSUPP -> "BlockNotSupported"
      [] OTHER -> "Ok"

\* match footer.status
StatusResult(status) ==
    CASE status = VIRTIO_BLK_S_OK -> "Ok"
      [] status = VIRTIO_BLK_S_IOERR -> "BlockIOError"
      [] status = VIRTIO_BLK_S_UNSUPP -> "BlockNotSupported"
      [] OTHER -> "BlockNotSupported"

\* an error that stays: after reads that all failed, read() fails alike
ReadReturn_sticky ==
    /\ pc = "status"
    /\ readResult' = IF lastOk = [s \in Sectors |-> <<>>] /\ nReads > 1
                     THEN "BlockIOError"
                     ELSE StatusResult(stack.footer.status)
    /\ lastOk' = IF readResult' = "Ok" /\ cfg.kind = "conforming"
                 THEN [lastOk EXCEPT ![argSector] =
                          [data |-> stack.data, again |-> lastOk[argSector] # <<>>]]
                 ELSE lastOk
    /\ pc' = "idle"
    /\ UNCHANGED <<cfg, bus, initResult, device_features, descriptors, avail,
                   used, next_head, next_desc, stack, dpc, dreq, nReads, argSector, head0,
                   touched, prevTouched, waited, fenced>>

ReadReturn ==
    /\ pc = "status"
    /\ readResult' = StatusResult(stack.footer.status)
    /\ lastOk' = IF readResult' = "Ok" /\ cfg.kind = "conforming"
                 THEN [lastOk EXCEPT ![argSector] =
                          [data |-> stack.data, again |-> lastOk[argSector] # <<>>]]
                 ELSE lastOk
    /\ pc' = "idle"
    /\ UNCHANGED <<cfg, bus, initResult, device_features, descriptors, avail,
                   used, next_head, next_desc, stack, dpc, dreq, nReads, argSector, head0,
                   touched, prevTouched, waited, fenced>>

ReadStep ==
    \/ \E sector \in Sectors, len \in DataLens : ReadCall(sector, len)
    \/ FillHeaderDesc \/ FillDataDesc \/ FillFooterDesc
    \/ PublishRing \/ PublishFence \/ PublishIdx \/ AdvanceHead \/ Notify
    \/ Poll \/ PollFence \/ ReadReturn

----------------------------------------------------------------------------
(* The device behind the queue.  It is live once DRIVER_OK is set, follows  *)
(* the available ring whether or not it was notified, serves one chain at a *)
(* time and increments used.idx once per chain.  A conforming device        *)
(* serves a read from its store; a faulty one writes any number of bytes    *)
(* and any status; a dead one never completes.                              *)

DeviceLive ==
    /\ HasAll(bus.reg[REG_STATUS], Bits(VIRTIO_STATUS_DRIVER_OK))
    /\ bus.reg[REG_QUEUE_READY] = Bits(1)

\* the descriptors linked from slot i by their next fields, at most n of them
RECURSIVE ChainFrom(_, _, _)
ChainFrom(table, i, n) ==
    IF n = 0 THEN <<>>
    ELSE IF HasAll(table[i].flags, Bits(VIRTQ_DESC_F_NEXT))
         THEN <<table[i]>> \o ChainFrom(table, table[i].next, n - 1)
         ELSE <<table[i]>>

\* a read request: readable header, writable data, writable one-byte status
WellFormed(chain) ==
    /\ Len(chain) = 3
    /\ chain[1].addr = "header" /\ chain[1].length = HEADER_SIZE
    /\ ~HasAll(chain[1].flags, Bits(VIRTQ_DESC_F_WRITE))
    /\ chain[2].addr = "data" /\ HasAll(chain[2].flags, Bits(VIRTQ_DESC_F_WRITE))
    /\ chain[3].addr = "footer" /\ chain[3].length = FOOTER_SIZE
    /\ HasAll(chain[3].flags, Bits(VIRTQ_DESC_F_WRITE))

InStore(sector) == sector \in StoredSectors

DevFetch ==
    /\ DeviceLive
    /\ cfg.kind # "dead"
    /\ dpc = "d_idle"
    /\ used.idx # avail.idx
    /\ LET head == avail.ring[used.idx % QUEUE_SIZE]
           chain == ChainFrom(descriptors, head, QUEUE_SIZE)
       IN  dreq' = [head |-> head, chain |-> chain,
                    sector |-> IF WellFormed(chain) THEN stack.header.sector ELSE {},
                    bytes |-> 0]
    /\ dpc' = "d_data"
    /\ UNCHANGED <<cfg, bus, pc, initResult, device_features, descriptors, avail,
                   used, next_head, next_desc, stack, readResult, nReads, argSector, head0,
                   touched, prevTouched, lastOk, waited, fenced>>

\* the request is one the device can serve from its store
Servable(r) ==
    /\ WellFormed(r.chain)
    /\ stack.header.request = 0
    /\ InStore(r.sector)

\* the byte counts the device may write into the data buffer
DataCounts(r) ==
    IF ~WellFormed(r.chain) THEN {0}
    ELSE IF cfg.kind = "faulty" THEN FaultyByteCounts
    ELSE IF Servable(r) THEN {r.chain[2].length} ELSE {0}

DevWriteData ==
    /\ dpc = "d_data"
    /\ \E n \in DataCounts(dreq) :
        /\ dreq' = [dreq EXCEPT !.bytes = n]
        /\ stack' = IF n = 0 THEN stack
                    ELSE [stack EXCEPT !.data.bytes = n,
                                       !.data.fill = SectorContent(dreq.sector)]
    /\ dpc' = "d_status"
    /\ UNCHANGED <<cfg, bus, pc, initResult, device_features, descriptors, avail,
                   used, next_head, next_desc, readResult, nReads, argSector, head0,
                   touched, prevTouched, lastOk, waited, fenced>>

\* the status bytes the device may write into the footer
StatusChoices(r) ==
    IF ~WellFormed(r.chain) THEN {stack.footer.status}
    ELSE IF cfg.kind = "faulty" THEN StatusBytes
    ELSE IF Servable(r) THEN {VIRTIO_BLK_S_OK}
    ELSE IF stack.header.request # 0 THEN {VIRTIO_BLK_S_UNSUPP}
    ELSE {VIRTIO_BLK_S_IOERR}

DevWriteStatus ==
    /\ dpc = "d_status"
    /\ \E s \in StatusChoices(dreq) :
        stack' = [stack EXCEPT !.footer.status = s]
    /\ dpc' = "d_complete"
    /\ UNCHANGED <<cfg, bus, pc, initResult, device_features, descriptors, avail,
                   used, next_head, next_desc, readResult, dreq, nReads, argSector, head0,
                   touched, prevTouched, lastOk, waited, fenced>>

DevComplete ==
    /\ dpc = "d_complete"
    /\ used' = [used EXCEPT !.ring[used.idx % QUEUE_SIZE] =
                                [id |-> dreq.head],
                            !.idx = Wrap16(used.idx + 1)]
    /\ dpc' = "d_idle"
    /\ dreq' = NoRequest
    /\ UNCHANGED <<cfg, bus, pc, initResult, device_features, descriptors, avail,
                   next_head, next_desc, stack, readResult, nReads, argSector, head0,
                   touched, prevTouched, lastOk, waited, fenced>>

DeviceStep == DevFetch \/ DevWriteData \/ DevWriteStatus \/ DevComplete

----------------------------------------------------------------------------
(* The state after init() and n completed reads *)

\* the registers and the write log when init() has returned Ok
BusAfterInit(c) ==
    LET b1 == set_status(c, EmptyBus, Bits(VIRTIO_STATUS_RESET))
        b2 == add_status(c, b1, Bits(VIRTIO_STATUS_ACKNOWLEDGE))
        b3 == add_status(c, b2, Bits(VIRTIO_STATUS_DRIVER))
        r  == ReadDeviceFeatures(c, b3)
        b4 == WriteDriverFeatures(c, r.bus, r.features)
        b5 == add_status(c, b4, Bits(VIRTIO_STATUS_FEATURES_OK))
        b6 == io_write_u32(c, b5, REG_QUEUE_SEL, Bits(0))
        b7 == io_write_u32(c, b6, REG_QUEUE_NUM, Bits(QUEUE_SIZE))
        b8 == WriteAddr(c,
                WriteAddr(c,
                  WriteAddr(c, b7, REG_DESC_LOW, REG_DESC_HIGH, DescAddr),
                  REG_AVAIL_LOW, REG_AVAIL_HIGH, AvailAddr),
                REG_USED_LOW, REG_USED_HIGH, UsedAddr)
        b9 == io_write_u32(c, b8, REG_QUEUE_READY, Bits(1))
    IN  add_status(c, b9, Bits(VIRTIO_STATUS_DRIVER_OK))

\* the head of the chain of entry m (m from 0): the cursor after m reads
EntryHead(m) == (3 * m) % QUEUE_SIZE

\* the last of the entries 0..n-1 that went to ring slot s, or -1
LastEntryAt(n, s) ==
    IF n = 0 THEN -1 ELSE (n - 1) - ((n - 1 - s + QUEUE_SIZE) % QUEUE_SIZE)

RingAfter(n) ==
    [s \in 0..(QUEUE_SIZE - 1) |->
        IF LastEntryAt(n, s) < 0 THEN 0 ELSE EntryHead(LastEntryAt(n, s))]

\* the slots of the chain of entry m
EntrySlots(m) ==
    {EntryHead(m), NextSlot(EntryHead(m)), NextSlot(NextSlot(EntryHead(m)))}

DescAfter(n) ==
    [j \in 0..(QUEUE_SIZE - 1) |->
        LET ms == {m \in (IF n > 6 THEN n - 6 ELSE 0)..(n - 1) : j \in EntrySlots(m)}
        IN  IF ms = {} THEN DefaultDesc
            ELSE LET m == CHOOSE x \in ms : \A y \in ms : y <= x
                     h == EntryHead(m)
                 IN  IF j = h THEN HeaderDesc(NextSlot(j))
                     ELSE IF j = NextSlot(h) THEN DataDesc(NextSlot(j))
                     ELSE FooterDesc]

AvailAfter(n) == [flags |-> 0, idx |-> Wrap16(n), ring |-> RingAfter(n)]

UsedAfter(n) ==
    [flags |-> 0, idx |-> Wrap16(n),
     ring |-> [s \in 0..(QUEUE_SIZE - 1) |-> [id |-> RingAfter(n)[s]]]]

\* the buffer of a read of sector s served from the store
SectorRead(s) == [len |-> SECTOR_SIZE, bytes |-> SECTOR_SIZE, fill |-> SectorContent(s)]

\* a start after init() and cfg.before reads of sector 0, all of them Ok
LateInit ==
    /\ cfg \in LateConfigs
    /\ bus = BusAfterInit(cfg)
    /\ pc = "idle"
    /\ initResult = "Ok"
    /\ device_features = cfg.features
    /\ descriptors = DescAfter(cfg.before)
    /\ avail = AvailAfter(cfg.before)
    /\ used = UsedAfter(cfg.before)
    /\ next_head = EntryHead(cfg.before)
    /\ next_desc = NextSlot(NextSlot(EntryHead(cfg.before - 1)))
    /\ stack = [header |-> [request |-> 0, reserved |-> 0, sector |-> Bits(0)],
                data |-> SectorRead(Bits(0)),
                footer |-> [status |-> VIRTIO_BLK_S_OK]]
    /\ readResult = "Ok"
    /\ dpc = "d_idle"
    /\ dreq = NoRequest
    /\ nReads = cfg.before
    /\ argSector = Bits(0)
    /\ head0 = EntryHead(cfg.before - 1)
    /\ touched = EntrySlots(cfg.before - 1)
    /\ prevTouched = EntrySlots(cfg.before - 2)
    /\ lastOk = [s \in Sectors |->
                    IF s = Bits(0) THEN [data |-> SectorRead(s), again |-> TRUE]
                    ELSE <<>>]
    /\ waited = FALSE
    /\ fenced = FALSE

----------------------------------------------------------------------------
Start == Init \/ LateInit

Next == InitStep \/ ReadStep \/ DeviceStep

Spec == Start /\ [][Next]_vars

\* the driver runs, and a device that is not dead serves what it fetched
LiveSpec ==
    /\ Start /\ [][Next]_vars
    /\ WF_vars(InitStep \/ ReadStep)
    /\ WF_vars(DeviceStep)

----------------------------------------------------------------------------
(* Properties of init() *)

ACKNOWLEDGE_BIT == 0
DRIVER_BIT == 1
DRIVER_OK_BIT == 2
FEATURES_OK_BIT == 3
FAILED_BIT == 7

StatusWrites == {i \in 1..Len(bus.log) : bus.log[i][1] = REG_STATUS}
FailedWritten == \E i \in StatusWrites : FAILED_BIT \in bus.log[i][2]
InitReturned == initResult # "none"

ProbeErrors == {"VirtioMagicInvalid", "VirtioVersionInvalid", "VirtioUnsupportedDevice"}
HandshakeErrors == {"VirtioLegacyOnly", "VirtioFeatureNegotiationFailed",
                    "VirtioQueueTooSmall"}

MagicGood == cfg.magic = Bits(VIRTIO_MAGIC)
VersionGood == cfg.version = Bits(VIRTIO_VERSION)
DeviceIdGood == cfg.device_id = Bits(VIRTIO_SUBSYSTEM_BLOCK)
HasVersion1 == 32 \in cfg.features
\* the maximum queue size is at least 16: some bit of weight 16 or more is set
QueueBigEnough == \E b \in cfg.max_queue : b >= 4

ConformingRegisters ==
    MagicGood /\ VersionGood /\ DeviceIdGood /\ HasVersion1 /\ cfg.accept
    /\ QueueBigEnough

\* C1: against a conforming device whose feature bitmap has bit 32, init()
\* returns nothing but Ok, and when it has returned the status register holds
\* ACKNOWLEDGE, DRIVER, FEATURES_OK and DRIVER_OK and not FAILED.
C1_InitSucceeds ==
    (ConformingRegisters /\ InitReturned) =>
        /\ initResult = "Ok"
        /\ {ACKNOWLEDGE_BIT, DRIVER_BIT,
            FEATURES_OK_BIT, DRIVER_OK_BIT}
              \subseteq bus.reg[REG_STATUS]
        /\ FAILED_BIT \notin bus.reg[REG_STATUS]

C1_Witness ==
    /\ ConformingRegisters
    /\ cfg.features = {0, 31, 32, 63}
    /\ initResult = "Ok"
    /\ pc = "idle" /\ nReads = 0

C3_ProbeErrors ==
    (InitReturned /\ ~(MagicGood /\ VersionGood /\ DeviceIdGood)) =>
        /\ ~MagicGood => initResult = "VirtioMagicInvalid"
        /\ (MagicGood /\ ~VersionGood) => initResult = "VirtioVersionInvalid"
        /\ (MagicGood /\ VersionGood /\ ~DeviceIdGood) =>
              initResult = "VirtioUnsupportedDevice"
        /\ \A i \in 1..Len(bus.log) : bus.log[i][1] \notin QueueAddrRegs

C3_Witness ==
    /\ ~MagicGood /\ ~VersionGood /\ ~DeviceIdGood
    /\ initResult = "VirtioMagicInvalid"
    /\ pc = "init_failed"

\* C4: a device that passes the probe and the feature exchange and reports a
\* maximum queue size below 16 makes init() return VirtioQueueTooSmall with
\* FAILED set in the status register.
C4_QueueTooSmall ==
    (InitReturned /\ MagicGood /\ VersionGood /\ DeviceIdGood /\ HasVersion1
        /\ cfg.accept /\ ~QueueBigEnough) =>
        /\ initResult = "VirtioQueueTooSmall"
        /\ FAILED_BIT \in bus.reg[REG_STATUS]

C4_Witness ==
    /\ cfg.max_queue = Bits(QUEUE_SIZE - 1)
    /\ initResult = "VirtioQueueTooSmall"
    /\ FAILED_BIT \in bus.reg[REG_STATUS]

----------------------------------------------------------------------------
(* Properties of read() *)

BuildPcs == {"desc_header", "desc_data", "desc_footer"}
PublishPcs == {"publish_ring", "publish_fence", "publish_idx"}
PollPcs == {"poll", "poll_fence"}
ReadPcs == BuildPcs \cup PublishPcs \cup {"advance_head", "notify", "status"}
             \cup PollPcs

\* read() has returned a result and no other call has started
ReadReturned == pc = "idle" /\ readResult # "none"

\* C5 as stated: whenever read() returns Ok the device has written exactly
\* 512 bytes into the caller's buffer; a device that completes the chain
\* without having written them makes read() return an error.
C5_OkMeansSectorWritten ==
    (ReadReturned /\ readResult = "Ok") => stack.data.bytes = SECTOR_SIZE

\* C6: the result of a completed read() is decided by the footer status byte:
\* 0 gives Ok, 1 gives BlockIOError, 2 and every other value up to 255 give
\* BlockNotSupported.
C6_ResultFromStatus ==
    ReadReturned =>
        /\ stack.footer.status \in 0..255
        /\ stack.footer.status = 0 => readResult = "Ok"
        /\ stack.footer.status = 1 => readResult = "BlockIOError"
        /\ stack.footer.status \in 2..255 => readResult = "BlockNotSupported"

C6_Witness ==
    /\ ReadReturned
    /\ stack.footer.status = 255
    /\ readResult = "BlockNotSupported"

\* C7: a call of read() with a buffer of another length than 512 aborts and
\* changes nothing: no register is written (the write log, the notify register
\* included, is as before) and the descriptor table, the available ring, its
\* index and next_head are as before; nothing runs after the abort.
C7_BadLengthAborts ==
    /\ [][\A sector \in Sectors : \A len \in DataLens \ {SECTOR_SIZE} :
            ReadCall(sector, len) =>
                /\ pc' = "panicked"
                /\ UNCHANGED <<bus, descriptors, avail, used, next_head, stack>>]_vars
    /\ [][pc # "panicked"]_vars

C7_Witness ==
    /\ pc = "panicked"
    /\ nReads = 2
    /\ Len(bus.log) > 0
    /\ bus.log[Len(bus.log)] = <<REG_QUEUE_NOTIFY, {}>>

\* C8: against a conforming device a read() of sector S that returns Ok leaves
\* the 512 bytes of sector S in the buffer; the device finds S in the header,
\* with request type 0; and a later read() of S that returns Ok leaves the
\* same bytes as the one before, whatever was read in between.
C8_RoundTrip ==
    /\ [](cfg.kind = "conforming" =>
            /\ (ReadReturned /\ readResult = "Ok") =>
                  stack.data = [len |-> SECTOR_SIZE, bytes |-> SECTOR_SIZE,
                                fill |-> SectorContent(argSector)]
            /\ dpc # "d_idle" =>
                  (dreq.sector = argSector /\ stack.header.request = 0))
    /\ [][(cfg.kind = "conforming" /\ pc = "status" /\ readResult' = "Ok"
             /\ lastOk[argSector] # <<>>) =>
                stack.data = lastOk[argSector].data]_vars

C8_Witness ==
    /\ cfg.kind = "conforming"
    /\ ReadReturned /\ readResult = "Ok"
    /\ argSector = Bits(1)
    /\ lastOk[Bits(1)] # <<>> /\ lastOk[Bits(1)].again
    /\ lastOk[Bits(0)] # <<>> /\ lastOk[Bits(0)].again

\* the slots of the chain that starts at slot h
ChainSlots(h) == {h, (h + 1) % QUEUE_SIZE, (h + 2) % QUEUE_SIZE}

\* the heads of the chains that are published and not completed
InFlightHeads ==
    {avail.ring[(used.idx + k) % QUEUE_SIZE] :
        k \in 0..(((avail.idx - used.idx + 65536) % 65536) - 1)}

\* C9: the k-th read uses the chain head 3*(k-1) mod 16 and the three slots
\* from it, modulo 16; next_head is always in 0..15; the chain of the 17th
\* read starts at slot 0; and the slots a read writes are neither slots of a
\* chain in flight nor slots of the read before.
C9_ChainSlots ==
    /\ next_head \in 0..(QUEUE_SIZE - 1)
    /\ (pc \in ReadPcs \/ (pc = "idle" /\ nReads >= 1)) =>
          /\ head0 = (3 * (nReads - 1)) % QUEUE_SIZE
          /\ nReads = 17 => head0 = 0
          /\ touched \subseteq ChainSlots(head0)
          /\ touched \cap prevTouched = {}
          /\ pc \notin BuildPcs => touched = ChainSlots(head0)
          /\ pc \notin (BuildPcs \cup {"publish_ring"}) =>
                avail.ring[(nReads - 1) % QUEUE_SIZE] = head0
          /\ pc \in (BuildPcs \cup {"publish_ring", "publish_fence"}) =>
                \A h \in InFlightHeads : ChainSlots(h) \cap touched = {}

C9_Witness ==
    /\ nReads = 17
    /\ pc = "publish_fence"
    /\ head0 = 0
    /\ touched = {0, 1, 2}
    /\ prevTouched = {13, 14, 15}

\* C10: read() returns exactly when the device completes the request: with a
\* device that serves every published chain, every read() that has started
\* returns; the poll loop is left only with used.idx equal to avail.idx; and
\* with a device that never completes, no read() returns.
C10_ReadTerminates ==
    /\ [](pc \in ReadPcs /\ cfg.kind # "dead" => <>(pc = "idle"))
    /\ [][(pc \in PollPcs /\ pc' \notin PollPcs) => used.idx = avail.idx]_vars
    /\ [](cfg.kind = "dead" => (pc # "status" /\ readResult = "none"))

C10_Witness ==
    /\ ReadReturned
    /\ waited
    /\ used.idx = avail.idx /\ used.idx = 2

----------------------------------------------------------------------------
(* Properties of the queue protocol *)

NEXT_BIT == 0
WRITE_BIT == 1

\* the three descriptors of a read request stand in the slots from h
BuiltChain(h) ==
    /\ descriptors[h] =
          [addr |-> "header", length |-> 16, flags |-> {NEXT_BIT},
           next |-> (h + 1) % QUEUE_SIZE]
    /\ descriptors[(h + 1) % QUEUE_SIZE] =
          [addr |-> "data", length |-> 512, flags |-> {NEXT_BIT, WRITE_BIT},
           next |-> (h + 2) % QUEUE_SIZE]
    /\ descriptors[(h + 2) % QUEUE_SIZE] =
          [addr |-> "footer", length |-> 1, flags |-> {WRITE_BIT}, next |-> 0]

\* the ring slot of the entry published last: (avail.idx - 1) mod 16
LastRingSlot == ((avail.idx + 65535) % 65536) % QUEUE_SIZE

NotifyWrites == {i \in 1..Len(bus.log) : bus.log[i][1] = REG_QUEUE_NOTIFY}

\* C11: in each read() the three descriptors are filled, then the head is
\* written to avail.ring[avail.idx mod 16], then comes the fence, then the
\* increment of avail.idx, then the notify write.  So a device that finds
\* avail.idx ahead of used.idx finds in the ring slot of the last entry the
\* head of a completely built chain of this read(), and notify is written
\* only after the increment.
C11_PublishOrder ==
    /\ [][avail'.ring # avail.ring =>
            /\ pc = "publish_ring" /\ pc' = "publish_fence"
            /\ BuiltChain(head0)
            /\ avail'.ring = [avail.ring EXCEPT ![avail.idx % QUEUE_SIZE] = head0]
            /\ avail'.idx = avail.idx]_vars
    /\ [][pc' = "publish_idx" => pc = "publish_fence"]_vars
    /\ [][avail'.idx # avail.idx =>
            /\ pc = "publish_idx"
            /\ avail.ring[avail.idx % QUEUE_SIZE] = head0
            /\ BuiltChain(head0)
            /\ Cardinality(NotifyWrites) = nReads - cfg.before - 1]_vars
    /\ [][bus'.log # bus.log /\ pc \notin {"notify"} => initResult = "none"]_vars
    /\ [][pc = "notify" /\ pc' # pc =>
            /\ avail.idx = Wrap16(nReads)
            /\ bus'.log = Append(bus.log, <<REG_QUEUE_NOTIFY, {}>>)]_vars
    /\ [](avail.idx # used.idx =>
            /\ avail.ring[LastRingSlot] = head0
            /\ BuiltChain(avail.ring[LastRingSlot]))
    /\ [](dpc # "d_idle" => (dreq.head = head0 /\ Len(dreq.chain) = 3))

C11_Witness ==
    /\ pc = "notify"
    /\ dpc = "d_data"
    /\ avail.idx = 2 /\ used.idx = 1
    /\ dreq.head = 3

\* C12: at most one chain is in flight: avail.idx is used.idx or one more
\* (modulo 2^16); read() returns only with used.idx equal to avail.idx; and
\* while a chain is published and not completed, or the device still works on
\* it, the read() that owns its header, data and footer has not returned.
C12_OneInFlight ==
    /\ ((avail.idx - used.idx + 65536) % 65536) \in {0, 1}
    /\ pc \in {"status", "idle", "panicked"} => used.idx = avail.idx
    /\ (avail.idx # used.idx \/ dpc # "d_idle") =>
          /\ pc \in (ReadPcs \ {"status"})
          /\ \A i \in ChainSlots(avail.ring[LastRingSlot]) :
                descriptors[i].addr \in {"header", "data", "footer"}
          /\ stack.header.sector = argSector
          /\ stack.data.len = SECTOR_SIZE

C12_Witness ==
    /\ pc = "poll_fence"
    /\ dpc = "d_complete"
    /\ avail.idx = 3 /\ used.idx = 2

\* C14: the chain published by read() is well formed: from the head in the
\* available ring the next fields lead through exactly three descriptors: the
\* first of length 16 with NEXT only, the second of length 512 with NEXT and
\* WRITE, the third of length 1 with WRITE only; the next field of the first
\* and second is its own index plus one modulo 16.
C14_ChainWellFormed ==
    (nReads > cfg.before /\ pc \notin (BuildPcs \cup {"publish_ring"})) =>
        LET h == avail.ring[(nReads - 1) % QUEUE_SIZE]
            d1 == descriptors[h]
            d2 == descriptors[d1.next]
            d3 == descriptors[d2.next]
        IN  /\ d1.length = 16 /\ d1.flags = {NEXT_BIT}
            /\ d1.next = (h + 1) % QUEUE_SIZE
            /\ d2.length = 512 /\ d2.flags = {NEXT_BIT, WRITE_BIT}
            /\ d2.next = (d1.next + 1) % QUEUE_SIZE
            /\ d3.length = 1 /\ d3.flags = {WRITE_BIT}
            /\ Cardinality({h, d1.next, d2.next}) = 3

C14_Witness ==
    /\ nReads = 6
    /\ pc = "publish_fence"
    /\ avail.ring[5] = 15
    /\ descriptors[15].next = 0 /\ descriptors[0].next = 1
    /\ descriptors[1].flags = {WRITE_BIT}

\* the number of chains published so far
Published == IF pc \in (BuildPcs \cup PublishPcs) THEN nReads - 1 ELSE nReads

\* the number of chains whose head has been written to the ring
RingWritten == IF pc \in (BuildPcs \cup {"publish_ring"}) THEN nReads - 1 ELSE nReads

\* the queue memory between two reads is what n reads leave behind, from
\* construction as well as from a late start
QueueAsAfterReads ==
    pc = "idle" =>
        /\ descriptors = DescAfter(nReads)
        /\ avail = AvailAfter(nReads)
        /\ used = UsedAfter(nReads)
        /\ next_head = EntryHead(nReads)
        /\ [bus EXCEPT !.log = SelectSeq(@, LAMBDA e : e[1] # REG_QUEUE_NOTIFY)]
              = BusAfterInit(cfg)
        /\ nReads > 0 =>
              /\ head0 = EntryHead(nReads - 1)
              /\ touched = EntrySlots(nReads - 1)
              /\ next_desc = NextSlot(NextSlot(head0))
        /\ nReads > 1 => prevTouched = EntrySlots(nReads - 2)

\* C13: avail.idx is the number of chains published, modulo 2^16: every
\* read() that passes the length check increments it once, from 65535 to 0 at
\* the wrap, and nothing else changes it; entry n (from 0) is in ring slot
\* n mod 16, across the wrap too.
C13_AvailIdxCounts ==
    /\ avail.idx = Published % 65536
    /\ \A m \in (IF RingWritten > 16 THEN RingWritten - 16 ELSE 0)..(RingWritten - 1) :
          avail.ring[m % 16] = (3 * m) % 16
    /\ \A s \in 0..15 : s >= RingWritten => avail.ring[s] = 0
    /\ pc \in (PublishPcs \ {"publish_ring"}) => avail.ring[(nReads - 1) % 16] = head0
    /\ QueueAsAfterReads

C13_Witness ==
    /\ nReads = 65537
    /\ avail.idx = 1
    /\ pc = "notify"
    /\ avail.ring[15] = 13 /\ avail.ring[0] = 0
    /\ next_head = 3

----------------------------------------------------------------------------
(* Properties of the handshake, over the log of register writes *)

WritesTo(regs) == {i \in 1..Len(bus.log) : bus.log[i][1] \in regs}

QueueRegs == {REG_QUEUE_SEL, REG_QUEUE_NUM, REG_QUEUE_READY} \cup QueueAddrRegs

\* the values written to the status register, in order
StatusSequence ==
    [k \in 1..Cardinality(StatusWrites) |->
        bus.log[CHOOSE i \in StatusWrites :
                    Cardinality({j \in StatusWrites : j <= i}) = k][2]]

\* C15: on the successful path the status register is written with 0, then
\* ACKNOWLEDGE, DRIVER, FEATURES_OK and DRIVER_OK added one at a time, no bit
\* cleared after the reset; the queue-select, queue-size and queue-address
\* registers are written only after FEATURES_OK was written and read back as
\* set; queue-ready is written with 1 after all six address registers; and
\* DRIVER_OK is written only after queue-ready.
C15_LinearHandshake ==
    /\ initResult = "Ok" =>
          StatusSequence = << {}, {ACKNOWLEDGE_BIT},
                              {ACKNOWLEDGE_BIT, DRIVER_BIT},
                              {ACKNOWLEDGE_BIT, DRIVER_BIT, FEATURES_OK_BIT},
                              {ACKNOWLEDGE_BIT, DRIVER_BIT, FEATURES_OK_BIT,
                               DRIVER_OK_BIT} >>
    /\ \A i \in WritesTo(QueueRegs \ {REG_QUEUE_READY}) :
          /\ \E j \in StatusWrites : j < i /\ FEATURES_OK_BIT \in bus.log[j][2]
          /\ FEATURES_OK_BIT \in bus.reg[REG_STATUS]
    /\ \A i \in WritesTo({REG_QUEUE_READY}) :
          /\ bus.log[i][2] = {0}
          /\ \A r \in QueueAddrRegs : \E j \in WritesTo({r}) : j < i
          /\ \E j \in WritesTo({REG_QUEUE_SEL}) : j < i
          /\ \E j \in WritesTo({REG_QUEUE_NUM}) : j < i
    /\ \A i \in StatusWrites :
          DRIVER_OK_BIT \in bus.log[i][2] =>
              \E j \in WritesTo({REG_QUEUE_READY}) : j < i
    /\ initResult = "Ok" =>
          /\ WritesTo({REG_QUEUE_READY}) # {}
          /\ DRIVER_OK_BIT \in bus.reg[REG_STATUS]

C15_Witness ==
    /\ initResult = "Ok"
    /\ nReads = 0
    /\ Len(bus.log) = 20
    /\ bus.log[18] = <<REG_USED_HIGH, {1}>>
    /\ bus.log[19] = <<REG_QUEUE_READY, {0}>>
    /\ bus.log[20] = <<REG_STATUS, {0, 1, 2, 3}>>

\* the two halves of a 64-bit bitmap
LowHalf(f) == {b \in f : b < 32}
HighHalf(f) == {b - 32 : b \in {x \in f : x >= 32}}

\* the log holds the writes ws one after the other
InLog(ws) ==
    \E i \in 0..(Len(bus.log) - Len(ws)) :
        \A k \in 1..Len(ws) : bus.log[i + k] = ws[k]

\* C16: for a device feature bitmap F with VERSION_1, the driver feature set
\* the device holds after the write-back is F: the low half of F went to 0x020
\* with 0x024 at 0, the high half with 0x024 at 1, the halves read from 0x010
\* with 0x014 at 0 and at 1.
C16_FeaturesEcho ==
    /\ (pc \notin {"probe", "reset", "acknowledge", "driver",
                   "request_features", "report_features"}
          /\ initResult \notin (ProbeErrors \cup {"VirtioLegacyOnly"})) =>
          /\ HasVersion1
          /\ device_features = cfg.features
          /\ bus.drvFeat[0] = LowHalf(cfg.features)
          /\ bus.drvFeat[1] = HighHalf(cfg.features)
          /\ InLog(<< <<REG_DEVICE_FEATURES_SEL, {}>>,
                      <<REG_DEVICE_FEATURES_SEL, {0}>>,
                      <<REG_DRIVER_FEATURES_SEL, {}>>,
                      <<REG_DRIVER_FEATURES, LowHalf(cfg.features)>>,
                      <<REG_DRIVER_FEATURES_SEL, {0}>>,
                      <<REG_DRIVER_FEATURES, HighHalf(cfg.features)>> >>)
    /\ Cardinality(WritesTo({REG_DRIVER_FEATURES})) \in {0, 2}

C16_Witness ==
    /\ initResult = "Ok"
    /\ cfg.features = {0, 31, 32, 63}
    /\ bus.drvFeat[0] = {0, 31}
    /\ bus.drvFeat[1] = {0, 31}

\* C17: a device without feature bit 32 makes init() write FAILED and return
\* VirtioLegacyOnly, with no write to 0x020 or 0x024 and no status write with
\* FEATURES_OK; a device whose status lacks FEATURES_OK when read back makes
\* init() write FAILED and return VirtioFeatureNegotiationFailed, with no
\* write to 0x030, 0x038, 0x044 or 0x080-0x0a4.
C17_FeatureStageFailures ==
    /\ initResult = "VirtioLegacyOnly" =>
          /\ ~HasVersion1
          /\ FAILED_BIT \in bus.log[Len(bus.log)][2]
          /\ bus.log[Len(bus.log)][1] = REG_STATUS
          /\ FAILED_BIT \in bus.reg[REG_STATUS]
          /\ WritesTo({REG_DRIVER_FEATURES, REG_DRIVER_FEATURES_SEL}) = {}
          /\ \A i \in StatusWrites : FEATURES_OK_BIT \notin bus.log[i][2]
    /\ (InitReturned /\ initResult \notin ProbeErrors /\ ~HasVersion1) =>
          initResult = "VirtioLegacyOnly"
    /\ initResult = "VirtioFeatureNegotiationFailed" =>
          /\ ~cfg.accept
          /\ FEATURES_OK_BIT \notin bus.reg[REG_STATUS]
          /\ bus.log[Len(bus.log)][1] = REG_STATUS
          /\ FAILED_BIT \in bus.log[Len(bus.log)][2]
          /\ FAILED_BIT \in bus.reg[REG_STATUS]
          /\ bus.log[Len(bus.log) - 1]
                = <<REG_STATUS, {ACKNOWLEDGE_BIT, DRIVER_BIT, FEATURES_OK_BIT}>>
          /\ WritesTo(QueueRegs) = {}
    /\ (InitReturned /\ initResult \notin ProbeErrors /\ HasVersion1
          /\ ~cfg.accept) =>
          initResult = "VirtioFeatureNegotiationFailed"

C17_Witness ==
    /\ initResult = "VirtioFeatureNegotiationFailed"
    /\ cfg.features = {5, 32, 40}
    /\ Cardinality(WritesTo({REG_DRIVER_FEATURES})) = 2
    /\ bus.reg[REG_STATUS] = {ACKNOWLEDGE_BIT, DRIVER_BIT, FAILED_BIT}

\* C18: in the poll loop used.idx is read only when a fence was issued since
\* it was last read, and the loop is left only when used.idx equals avail.idx.
C18_PollFenced ==
    /\ [](pc = "poll" => fenced)
    /\ [][(pc = "poll" /\ pc' \notin {"poll", "poll_fence"}) =>
             (pc' = "status" /\ used.idx = avail.idx /\ UNCHANGED <<used, avail>>)]_vars
    /\ [][(pc = "poll" /\ pc' = "poll_fence") => (used.idx # avail.idx /\ ~fenced')]_vars
    /\ [][(pc = "poll_fence" /\ pc' # pc) => (pc' = "poll" /\ fenced')]_vars
    /\ [][pc' = "status" => pc = "poll"]_vars

C18_Witness ==
    /\ pc = "poll"
    /\ waited
    /\ fenced
    /\ used.idx # avail.idx
    /\ nReads = 2

\* C19: when init() has returned an error, the queue-ready register has not
\* been written and no status write held DRIVER_OK; both writes are there when
\* init() has returned Ok, and the device has not served anything otherwise.
C19_NeverLiveOnError ==
    /\ (InitReturned /\ initResult # "Ok") =>
          /\ WritesTo({REG_QUEUE_READY}) = {}
          /\ \A i \in StatusWrites : DRIVER_OK_BIT \notin bus.log[i][2]
          /\ DRIVER_OK_BIT \notin bus.reg[REG_STATUS]
          /\ pc = "init_failed"
          /\ nReads = 0 /\ used.idx = 0 /\ dpc = "d_idle"
    /\ (WritesTo({REG_QUEUE_READY}) # {}
          \/ \E i \in StatusWrites : DRIVER_OK_BIT \in bus.log[i][2]) =>
          /\ initResult \in {"none", "Ok"}
          /\ pc \notin {"probe", "reset", "acknowledge", "driver", "request_features",
                        "report_features", "features_ok", "queue_select",
                        "queue_program", "queue_ready"}
    /\ initResult = "Ok" =>
          /\ WritesTo({REG_QUEUE_READY}) # {}
          /\ \E i \in StatusWrites : DRIVER_OK_BIT \in bus.log[i][2]

C19_Witness ==
    /\ initResult = "VirtioQueueTooSmall"
    /\ cfg.max_queue = Bits(QUEUE_SIZE - 1)
    /\ WritesTo({REG_QUEUE_SEL}) # {}
    /\ FailedWritten

\* no read() before the current one has returned Ok (conforming device)
OnlyFailedBefore ==
    /\ cfg.kind = "conforming"
    /\ nReads >= 3
    /\ \A s \in Sectors : lastOk[s] = <<>>

ReadErrors == {"BlockIOError", "BlockNotSupported"}

\* C20: a read() that returns BlockIOError or BlockNotSupported has moved
\* next_head by 3 modulo 16 and avail.idx by 1 as a successful one does, and
\* returns with used.idx = avail.idx; the read() after failed ones starts with
\* footer status 0, publishes a well-formed chain, and returns what its own
\* footer status says.
C20_ErrorsNotSticky ==
    /\ []((ReadReturned /\ readResult \in ReadErrors) =>
            /\ next_head = (head0 + 3) % 16
            /\ next_head = (3 * nReads) % 16
            /\ avail.idx = nReads % 65536
            /\ used.idx = avail.idx
            /\ dpc = "d_idle")
    /\ [][(ReadReturned /\ readResult \in ReadErrors /\ pc' # pc) =>
            (pc' = "panicked" \/
               /\ stack'.footer.status = 0
               /\ head0' = next_head
               /\ UNCHANGED <<avail, used, next_head>>)]_vars
    /\ []((OnlyFailedBefore /\ pc \in (ReadPcs \ (BuildPcs \cup {"publish_ring"}))) =>
            /\ BuiltChain(head0)
            /\ avail.ring[(nReads - 1) % 16] = head0)
    /\ [][(OnlyFailedBefore /\ pc = "status" /\ pc' # pc) =>
            /\ stack.footer.status = 0 => readResult' = "Ok"
            /\ stack.footer.status = 1 => readResult' = "BlockIOError"
            /\ stack.footer.status \notin {0, 1} => readResult' = "BlockNotSupported"]_vars

C20_Witness ==
    /\ cfg.kind = "conforming"
    /\ ReadReturned /\ readResult = "Ok"
    /\ nReads = 3
    /\ lastOk[argSector] # <<>> /\ ~lastOk[argSector].again
    /\ \A s \in Sectors \ {argSector} : lastOk[s] = <<>>

====
